---- MODULE Spec2Model ----
(***************************************************************************)
(* child_unique_ptr<Node, Node> (pyl_child_ptr.h) as a state machine.      *)
(*                                                                         *)
(* The value type is the tests' Node: it derives Backtraceable<Node> (so   *)
(* it carries the back-pointer `parent`) and owns child slots whose        *)
(* recorded parent is the node itself.  A heap of at most MaxNodes nodes   *)
(* is modelled; slot ids 1..MaxNodes*ChildSlots are the nodes' member      *)
(* slots, the ids above them are free-standing slots the caller            *)
(* constructs and destroys.                                                *)
(*                                                                         *)
(* Every C++ member function is an operator from a heap record S to the    *)
(* heap record after the call; an action commits one call.  A call that    *)
(* executes undefined behaviour (a write through a pointer to a destroyed  *)
(* node, a second delete of a node, a read of a destroyed slot) leaves     *)
(* status = "ub" with the heap as it was at the undefined step; a call     *)
(* whose cycle walk never ends leaves status = "hung".  No call follows.   *)
(* A call leaves its result in `last`; Return is the caller taking it.     *)
(***************************************************************************)
EXTENDS Integers, Sequences, FiniteSets, TLC

\* ------------------------------------------------------------------ bounds
MaxNodes    == 3   \* heap size: nodes ever allocated
ChildSlots  == 1   \* child slots per node
MaxFree     == 1   \* free-standing slots
MaxDeleters == 2   \* distinct deleter objects
StoreNodes  == 2   \* nodes allocated under SpecStores
AnyRawNodes == 2   \* nodes allocated under SpecAnyRaw
StoreAttrs  == 1   \* attribute entries, all slots together, under SpecStores
StoreFns    == 1   \* method entries, all slots together, under SpecStores
AttrNodes   == 2   \* nodes allocated under SpecAttr
AttrBudget  == 2   \* attribute entries, all slots together, under SpecAttr
FnNodes     == 2   \* nodes allocated under SpecFns
FnBudget    == 2   \* method entries, all slots together, under SpecFns

\* --------------------------------------------------------- program values
NULL == 0
DefaultDeleter == 1

Nodes       == 1..MaxNodes
MemberSlots == 1..(MaxNodes * ChildSlots)
FreeSlots   == (MaxNodes * ChildSlots + 1)..(MaxNodes * ChildSlots + MaxFree)
Slots       == MemberSlots \cup FreeSlots
Deleters    == 1..MaxDeleters

Owner(s)        == ((s - 1) \div ChildSlots) + 1
MemberSlot(n, j) == (n - 1) * ChildSlots + j
MembersOf(n)    == {s \in MemberSlots : Owner(s) = n}

\* std::any: the runtime type and the payload
Keys     == {"hp", "name"}
AnyTypes == {"int", "string"}
Absent   == [t |-> "none", v |-> 0]
AnyVals  == {[t |-> "int", v |-> 100], [t |-> "int", v |-> 7], [t |-> "string", v |-> 1]}

\* a null std::unique_ptr<map>: no map allocated
NoFields == [alloc |-> FALSE, m |-> [k \in Keys |-> Absent]]

FnNames == {"add", "hp"}
\* a callable as def<R, Args...> wraps it: the body, the declared result type
\* and the declared argument types
NoFn    == [f |-> "none", R |-> "none", A |-> <<>>]
FnBodies == {[f |-> "plus", R |-> "int", A |-> <<"int", "int">>],
             [f |-> "times", R |-> "int", A |-> <<"int", "int">>],
             [f |-> "twice", R |-> "int", A |-> <<"int">>]}
\* the argument packs of a call: one or two values
CallArgs == {<<x>> : x \in AnyVals} \cup {<<x, y>> : x \in AnyVals, y \in AnyVals}
NoFns   == [alloc |-> FALSE, m |-> [k \in FnNames |-> NoFn]]

\* the capabilities the service helpers probe with `requires`
TypeCaps == [to_string : BOOLEAN, stream : BOOLEAN, hash : BOOLEAN,
             std_hash : BOOLEAN, equals : BOOLEAN, eq : BOOLEAN,
             clone : BOOLEAN, copyable : BOOLEAN]
\* the tests' Node: to_string() and operator==; its child slots are move-only,
\* so it is not copy-constructible
NodeCaps == [to_string |-> TRUE, stream |-> FALSE, hash |-> FALSE,
             std_hash |-> FALSE, equals |-> FALSE, eq |-> TRUE,
             clone |-> FALSE, copyable |-> FALSE]
\* the types the service helpers are checked on: full_copy is not called
SvcCaps == {c \in TypeCaps : c.clone = NodeCaps.clone /\ c.copyable = NodeCaps.copyable}
\* the types full_copy is checked on: Node with and without clone() and a
\* copy constructor
CloneCaps == {c \in TypeCaps : \A k \in {"to_string", "stream", "hash", "std_hash", "equals", "eq"} :
                                 c[k] = NodeCaps[k]}
Values   == {1, 2, 3}

\* text, by how it was produced
NullText == [form |-> "<null>", v |-> 0, at |-> NULL]
ValueToString(v) == [form |-> "T::to_string", v |-> v, at |-> NULL]
StreamRender(v)  == [form |-> "os << t", v |-> v, at |-> NULL]
AddrText(n)      == [form |-> "<TypeName @address>", v |-> 0, at |-> n]

\* typeid(T).name()
TypeName == "T"
\* no full string
NoFull == [type |-> "none", value |-> NullText, marker |-> "none", parent |-> NULL]

\* what T's own members and std::hash<T> compute on the value: equals() is
\* coarser than operator==, and the type's hashes agree with both
MemberHash(v) == 31 * (v % 2) + 7
StdHash(v) == v % 2
MemberEquals(x, y) == x % 2 = y % 2
OpEquals(x, y) == x = y
\* std::hash<std::string> on a full string
FormCode(t) ==
  CASE t.form = "<null>" -> 1 [] t.form = "T::to_string" -> 2
    [] t.form = "os << t" -> 3 [] OTHER -> 4
StrHash(fs) == 1000 + 100 * FormCode(fs.value) + 10 * fs.value.v + 4 * fs.value.at + fs.parent

VARIABLES
  st,           \* node -> "unalloc" | "live" | "dying" | "dead"
  back,         \* node -> Backtraceable::parent
  constructed,  \* the slots that exist
  parent_,      \* slot -> recorded parent
  ptr_,         \* slot -> owned node or NULL
  deleter_,     \* slot -> deleter
  dyn_fields_,  \* slot -> attribute store
  dyn_fns_,     \* slot -> method registry
  callerOwns,   \* nodes whose raw pointer the caller owns
  status,       \* "ok" | "ub" | "hung"
  aliased,      \* the caller handed a slot a raw value another slot owned
  val,          \* node -> Node::value
  caps,         \* what the value type T offers: the members the helpers probe
  last          \* the last call: name, arguments, result, events

vars == <<st, back, constructed, parent_, ptr_, deleter_, dyn_fields_, dyn_fns_,
          callerOwns, status, aliased, val, caps, last>>

Cur ==
  [st |-> st, back |-> back, constructed |-> constructed, parent_ |-> parent_,
   ptr_ |-> ptr_, deleter_ |-> deleter_, dyn_fields_ |-> dyn_fields_,
   dyn_fns_ |-> dyn_fns_, status |-> status, val |-> val, caps |-> caps,
   log |-> <<>>]

\* no hash() call immediately before this one
NoPrev == [some |-> FALSE, h |-> 0]

Call(op, a, b, p) ==
  [op |-> op, a |-> a, b |-> b, p |-> p, k |-> "none", v |-> Absent,
   U |-> "none", old |-> Absent, fn |-> NoFn, oldfn |-> NoFn, args |-> <<>>,
   text |-> NullText, full |-> NoFull, prev |-> NoPrev, ret |-> NULL, refused |-> FALSE, fault |-> "none", log |-> <<>>]

Commit(S, l) ==
  /\ st' = S.st
  /\ back' = S.back
  /\ constructed' = S.constructed
  /\ parent_' = S.parent_
  /\ ptr_' = S.ptr_
  /\ deleter_' = S.deleter_
  /\ dyn_fields_' = S.dyn_fields_
  /\ dyn_fns_' = S.dyn_fns_
  /\ status' = S.status
  /\ val' = S.val
  /\ caps' = S.caps
  /\ last' = [l EXCEPT !.log = S.log]

Owned(S) == {S.ptr_[s] : s \in S.constructed} \ {NULL}
Live(S)  == {n \in Nodes : S.st[n] = "live"}

\* ------------------------------------------------------------- CycleGuard
RECURSIVE walk(_, _, _, _)
walk(S, child, cur, seen) ==
  IF cur = NULL THEN "no"
  ELSE IF cur = child THEN "yes"
  ELSE IF S.st[cur] = "dead" THEN "ub"
  ELSE IF cur \in seen THEN "hung"
  ELSE walk(S, child, S.back[cur], seen \cup {cur})

\* mutation: the guard looks at the new parent only, not at its ancestors
would_create_cycle_direct(S, child, new_parent) ==
  IF new_parent # NULL /\ new_parent = child THEN "yes" ELSE "no"

would_create_cycle(S, child, new_parent) == walk(S, child, new_parent, {})

\* --------------------------------------------------- parent maintenance
\* mutation: the adopted value's back-reference is never written
set_parent_on_child_skip(S, s) == S

\* mutation: adopting a value wipes the slot's stores
set_parent_on_child_wipes(S, s) ==
  IF S.status # "ok" \/ S.ptr_[s] = NULL THEN S
  ELSE [S EXCEPT !.back[S.ptr_[s]] = S.parent_[s],
                 !.log = Append(@, <<"set", S.ptr_[s], S.parent_[s]>>),
                 !.dyn_fields_[s] = NoFields, !.dyn_fns_[s] = NoFns]

set_parent_on_child(S, s) ==
  IF S.status # "ok" \/ S.ptr_[s] = NULL THEN S
  ELSE IF S.st[S.ptr_[s]] = "dead" THEN [S EXCEPT !.status = "ub"]
  ELSE [S EXCEPT !.back[S.ptr_[s]] = S.parent_[s],
                 !.log = Append(@, <<"set", S.ptr_[s], S.parent_[s]>>)]

\* mutation: the back-reference of a value that leaves its slot stays
clear_parent_on_child_skip(S, s) == S

clear_parent_on_child(S, s) ==
  IF S.status # "ok" \/ S.ptr_[s] = NULL THEN S
  ELSE IF S.st[S.ptr_[s]] = "dead" THEN [S EXCEPT !.status = "ub"]
  ELSE [S EXCEPT !.back[S.ptr_[s]] = NULL,
                 !.log = Append(@, <<"clear", S.ptr_[s], NULL>>)]

\* ------------------------------------------------- reset and destruction
\* mutation: the guard also refuses a value that has no parent yet
Refusal_orphans(S, s, p) ==
  IF p # NULL /\ S.parent_[s] # NULL
  THEN (IF S.back[p] = NULL THEN "yes" ELSE would_create_cycle(S, p, S.parent_[s]))
  ELSE "no"

Refusal(S, s, p) ==
  IF p # NULL /\ S.parent_[s] # NULL
  THEN would_create_cycle(S, p, S.parent_[s]) ELSE "no"

RECURSIVE reset(_, _, _), delete(_, _, _), destroy_members(_, _, _)

\* ~child_unique_ptr: reset(nullptr), then the slot is gone
destroy_slot(S, s) ==
  LET S1 == reset(S, s, NULL) IN
  IF S1.status # "ok" THEN S1
  ELSE [S1 EXCEPT !.constructed = @ \ {s},
                  !.dyn_fields_[s] = NoFields, !.dyn_fns_[s] = NoFns]

\* ~Node: the member slots die in reverse declaration order
destroy_members(S, n, j) ==
  IF j = 0 \/ S.status # "ok" THEN S
  ELSE destroy_members(destroy_slot(S, MemberSlot(n, j)), n, j - 1)

\* mutation: the value is destroyed through a default deleter, whatever the
\* slot's deleter
delete_default(S, n, d) ==
  IF S.status # "ok" THEN S
  ELSE IF S.st[n] # "live"
       THEN [S EXCEPT !.status = "ub",
                      !.log = Append(@, <<"delete", n, DefaultDeleter>>)]
  ELSE LET S1 == [S EXCEPT !.st[n] = "dying",
                           !.log = Append(@, <<"delete", n, DefaultDeleter>>)]
           S2 == destroy_members(S1, n, ChildSlots)
       IN IF S2.status # "ok" THEN S2 ELSE [S2 EXCEPT !.st[n] = "dead"]

\* deleter_(ptr_) with std::default_delete semantics: delete n; on a node
\* that is being or has been destroyed the deleter runs all the same
delete(S, n, d) ==
  IF S.status # "ok" THEN S
  ELSE IF S.st[n] # "live"
       THEN [S EXCEPT !.status = "ub", !.log = Append(@, <<"delete", n, d>>)]
  ELSE LET S1 == [S EXCEPT !.st[n] = "dying", !.log = Append(@, <<"delete", n, d>>)]
           S2 == destroy_members(S1, n, ChildSlots)
       IN IF S2.status # "ok" THEN S2 ELSE [S2 EXCEPT !.st[n] = "dead"]

reset(S, s, p) ==
  IF S.status # "ok" THEN S
  ELSE LET g == Refusal(S, s, p) IN
    IF g = "yes" THEN S
    ELSE IF g # "no" THEN [S EXCEPT !.status = g]
    ELSE LET S1 == IF S.ptr_[s] # NULL
                   THEN delete(clear_parent_on_child(S, s), S.ptr_[s], S.deleter_[s])
                   ELSE S
             S2 == IF S1.status # "ok" THEN S1
                   ELSE IF s \notin S1.constructed THEN [S1 EXCEPT !.status = "ub"]
                   ELSE [S1 EXCEPT !.ptr_[s] = p]
         IN set_parent_on_child(S2, s)

\* mutation: release hands the value out and keeps it
release_keeps(S, s) == clear_parent_on_child(S, s)

release(S, s) ==
  LET S1 == clear_parent_on_child(S, s) IN
  IF S1.status # "ok" THEN S1 ELSE [S1 EXCEPT !.ptr_[s] = NULL]

\* new Node(v): the node's member slots are constructed with parent_ = this
Fresh(S) == CHOOSE n \in Nodes : S.st[n] = "unalloc" /\ \A m \in Nodes : m < n => S.st[m] # "unalloc"
HasFresh(S) == \E n \in Nodes : S.st[n] = "unalloc"
new_node(S, n) ==
  [S EXCEPT !.st[n] = "live", !.back[n] = NULL, !.constructed = @ \cup MembersOf(n)]

\* mutation: swap exchanges the values and nothing else
swap_values_only(S, a, b) ==
  LET S1 == [S EXCEPT !.ptr_ = [@ EXCEPT ![a] = S.ptr_[b], ![b] = S.ptr_[a]]]
  IN set_parent_on_child(set_parent_on_child(S1, a), b)

\* mutation: only this slot's value gets its back-reference set
swap_one_sided(S, a, b) ==
  LET S1 == [S EXCEPT !.ptr_ = [@ EXCEPT ![a] = S.ptr_[b], ![b] = S.ptr_[a]],
                      !.deleter_ = [@ EXCEPT ![a] = S.deleter_[b], ![b] = S.deleter_[a]],
                      !.dyn_fields_ = [@ EXCEPT ![a] = S.dyn_fields_[b], ![b] = S.dyn_fields_[a]],
                      !.dyn_fns_ = [@ EXCEPT ![a] = S.dyn_fns_[b], ![b] = S.dyn_fns_[a]]]
  IN set_parent_on_child(S1, a)

swap(S, a, b) ==
  LET S1 == [S EXCEPT !.ptr_ = [@ EXCEPT ![a] = S.ptr_[b], ![b] = S.ptr_[a]],
                      !.deleter_ = [@ EXCEPT ![a] = S.deleter_[b], ![b] = S.deleter_[a]],
                      !.dyn_fields_ = [@ EXCEPT ![a] = S.dyn_fields_[b], ![b] = S.dyn_fields_[a]],
                      !.dyn_fns_ = [@ EXCEPT ![a] = S.dyn_fns_[b], ![b] = S.dyn_fns_[a]]]
  IN set_parent_on_child(set_parent_on_child(S1, a), b)

\* mutation: the move constructor takes the value and the deleter only
move_construct_value_only(S, f, o) ==
  LET S1 == release(S, o) IN
  IF S1.status # "ok" THEN S1
  ELSE set_parent_on_child(
         [S1 EXCEPT !.constructed = @ \cup {f},
                    !.parent_[f] = S.parent_[o],
                    !.ptr_[f] = S.ptr_[o],
                    !.deleter_[f] = S.deleter_[o]], f)

\* child_unique_ptr(child_unique_ptr&& other), constructing slot f
move_construct(S, f, o) ==
  LET S1 == release(S, o) IN
  IF S1.status # "ok" THEN S1
  ELSE set_parent_on_child(
         [S1 EXCEPT !.constructed = @ \cup {f},
                    !.parent_[f] = S.parent_[o],
                    !.ptr_[f] = S.ptr_[o],
                    !.deleter_[f] = S.deleter_[o],
                    !.dyn_fields_[f] = S.dyn_fields_[o],
                    !.dyn_fields_[o] = NoFields,
                    !.dyn_fns_[f] = S.dyn_fns_[o],
                    !.dyn_fns_[o] = NoFns], f)

\* mutation: move-assign adopts the source's value and leaves the source alone
move_assign_copies(S, d, o) ==
  IF d = o THEN S ELSE reset(S, d, S.ptr_[o])

\* mutation: move-assign takes the source's recorded parent as well
move_assign_takes_parent(S, d, o) ==
  IF d = o THEN S
  ELSE LET S1 == reset(release(S, o), d, S.ptr_[o])
       IN IF S1.status # "ok" THEN S1
          ELSE set_parent_on_child([S1 EXCEPT !.parent_[d] = S1.parent_[o]], d)

\* operator=(child_unique_ptr&& other)
move_assign(S, d, o) ==
  IF d = o THEN S
  ELSE LET p  == S.ptr_[o]
           S1 == reset(release(S, o), d, p)
       IN IF S1.status # "ok" THEN S1
          ELSE IF o \notin S1.constructed \/ d \notin S1.constructed
               THEN [S1 EXCEPT !.status = "ub"]
          ELSE [S1 EXCEPT !.deleter_[d] = S1.deleter_[o],
                          !.dyn_fields_[d] = S1.dyn_fields_[o],
                          !.dyn_fields_[o] = NoFields,
                          !.dyn_fns_[d] = S1.dyn_fns_[o],
                          !.dyn_fns_[o] = NoFns]

\* ------------------------------------------------------- dynamic stores
ensure_fields(S, s) ==
  IF S.dyn_fields_[s].alloc THEN S ELSE [S EXCEPT !.dyn_fields_[s].alloc = TRUE]

\* mutation: an existing entry is kept, as by map::emplace
field_assign_first_wins(S, s, k, v) ==
  IF S.dyn_fields_[s].m[k] # Absent THEN S
  ELSE [S EXCEPT !.dyn_fields_[s].alloc = TRUE, !.dyn_fields_[s].m[k] = v]

field_assign(S, s, k, v) ==
  [ensure_fields(S, s) EXCEPT !.dyn_fields_[s].m[k] = v]

ensure_fns(S, s) ==
  IF S.dyn_fns_[s].alloc THEN S ELSE [S EXCEPT !.dyn_fns_[s].alloc = TRUE]

\* mutation: a name that is defined keeps its callable
def_keeps_first(S, s, name, f) ==
  IF S.dyn_fns_[s].m[name] # NoFn THEN S
  ELSE [S EXCEPT !.dyn_fns_[s].alloc = TRUE, !.dyn_fns_[s].m[name] = f]

\* mutation: one namespace, a defined method is an attribute too
def_as_attribute(S, s, name, f) ==
  LET S1 == [ensure_fns(S, s) EXCEPT !.dyn_fns_[s].m[name] = f] IN
  IF name \in Keys
  THEN [S1 EXCEPT !.dyn_fields_[s].alloc = TRUE,
                  !.dyn_fields_[s].m[name] = [t |-> "int", v |-> 0]]
  ELSE S1

def(S, s, name, f) ==
  [ensure_fns(S, s) EXCEPT !.dyn_fns_[s].m[name] = f]

\* the callable's body on unpacked arguments
Apply(fn, args) ==
  CASE fn.f = "plus"  -> args[1].v + args[2].v
    [] fn.f = "times" -> args[1].v * args[2].v
    [] fn.f = "twice" -> 2 * args[1].v
    [] OTHER          -> 0

NoResult(fault) == [fault |-> fault, val |-> Absent, invoked |-> FALSE]

\* mutation: the wrapper does not count the arguments
call_fn_from_anys_uncounted(fn, args) ==
  IF Len(args) # Len(fn.A) THEN [fault |-> "none", val |-> [t |-> fn.R, v |-> 0], invoked |-> TRUE]
  ELSE IF \E i \in 1..Len(args) : args[i].t # fn.A[i] THEN NoResult("bad_any_cast")
  ELSE [fault |-> "none", val |-> [t |-> fn.R, v |-> Apply(fn, args)], invoked |-> TRUE]

\* the wrapper def stores: counts the arguments, any_casts each, calls fn
call_fn_from_anys(fn, args) ==
  IF Len(args) # Len(fn.A) THEN NoResult("arg_count")
  ELSE IF \E i \in 1..Len(args) : args[i].t # fn.A[i] THEN NoResult("bad_any_cast")
  ELSE [fault |-> "none", val |-> [t |-> fn.R, v |-> Apply(fn, args)], invoked |-> TRUE]

\* operator()(name, args...): the call_result, or the fault thrown
invoke(S, s, name, args) ==
  IF S.ptr_[s] = NULL THEN NoResult("null_call")
  ELSE IF ~S.dyn_fns_[s].alloc THEN NoResult("no_functions")
  ELSE IF S.dyn_fns_[s].m[name] = NoFn THEN NoResult("fn_not_found")
  ELSE call_fn_from_anys(S.dyn_fns_[s].m[name], args)

\* call_result::as<U>()
call_result_as(r, U) ==
  IF r.fault # "none" THEN r
  ELSE IF r.val.t # U THEN [fault |-> "bad_any_cast", val |-> Absent, invoked |-> r.invoked]
  ELSE r

\* ptr.call<U>(name, args...)
call(S, s, name, args, U) == call_result_as(invoke(S, s, name, args), U)

field_exists(S, s, k) ==
  S.dyn_fields_[s].alloc /\ S.dyn_fields_[s].m[k] # Absent

\* field_proxy::as<U>(): the fault it throws, or the value any_cast<U> yields
field_as(S, s, k, U) ==
  LET f == S.dyn_fields_[s] IN
  IF ~f.alloc THEN [fault |-> "no_map", val |-> Absent]
  ELSE IF f.m[k] = Absent THEN [fault |-> "key_not_found", val |-> Absent]
  ELSE IF f.m[k].t # U THEN [fault |-> "bad_any_cast", val |-> Absent]
  ELSE [fault |-> "none", val |-> f.m[k]]

\* mutation: operator[] hands out a proxy on an empty slot too
subscript_unchecked(S, s) == "none"

\* operator[](key): throws on an empty slot
subscript(S, s) == IF S.ptr_[s] = NULL THEN "null" ELSE "none"

\* ptr[k].as<U>()
get(S, s, k, U) ==
  IF subscript(S, s) # "none" THEN [fault |-> subscript(S, s), val |-> Absent]
  ELSE field_as(S, s, k, U)

\* ptr[k].exists()
exists(S, s, k) ==
  IF subscript(S, s) # "none" THEN [fault |-> subscript(S, s), b |-> FALSE]
  ELSE [fault |-> "none", b |-> field_exists(S, s, k)]

\* ptr[name](args...).as<U>(): field_proxy::operator() forwards to operator()
proxy_call(S, s, name, args, U) ==
  IF subscript(S, s) # "none" THEN NoResult(subscript(S, s))
  ELSE call(S, s, name, args, U)

\* ------------------------------------------------------ service helpers
\* mutation: the stream rendering is probed before T::to_string
to_string_stream_first(S, s) ==
  IF S.ptr_[s] = NULL THEN NullText
  ELSE IF S.caps.stream THEN StreamRender(S.val[S.ptr_[s]])
  ELSE IF S.caps.to_string THEN ValueToString(S.val[S.ptr_[s]])
  ELSE AddrText(S.ptr_[s])

to_string(S, s) ==
  IF S.ptr_[s] = NULL THEN NullText
  ELSE IF S.caps.to_string THEN ValueToString(S.val[S.ptr_[s]])
  ELSE IF S.caps.stream THEN StreamRender(S.val[S.ptr_[s]])
  ELSE AddrText(S.ptr_[s])

\* mutation: the parent marker goes with any held value
to_full_string_any_value(S, s) ==
  [type |-> TypeName, value |-> to_string(S, s),
   marker |-> IF S.ptr_[s] # NULL THEN "parent@" ELSE "parent=null",
   parent |-> IF S.ptr_[s] # NULL THEN S.back[S.ptr_[s]] ELSE NULL]

\* "[" typeid " value=" to_string() " parent@"addr | " parent=null" "]"
to_full_string(S, s) ==
  [type |-> TypeName, value |-> to_string(S, s),
   marker |-> IF S.ptr_[s] # NULL /\ S.back[S.ptr_[s]] # NULL
              THEN "parent@" ELSE "parent=null",
   parent |-> IF S.ptr_[s] # NULL THEN S.back[S.ptr_[s]] ELSE NULL]

\* mutation: hash has no case for the empty slot
hash_unguarded(S, s) ==
  IF S.ptr_[s] # NULL /\ S.caps.hash THEN MemberHash(S.val[S.ptr_[s]])
  ELSE IF S.ptr_[s] # NULL /\ S.caps.std_hash THEN StdHash(S.val[S.ptr_[s]])
  ELSE StrHash(to_full_string(S, s))

\* mutation: the fallback hash takes the slot's attribute store in
hash_with_fields(S, s) ==
  IF S.ptr_[s] = NULL THEN 0
  ELSE IF S.caps.hash THEN MemberHash(S.val[S.ptr_[s]])
  ELSE IF S.caps.std_hash THEN StdHash(S.val[S.ptr_[s]])
  ELSE StrHash(to_full_string(S, s)) + (IF S.dyn_fields_[s].alloc THEN 1 ELSE 0)

hash(S, s) ==
  IF S.ptr_[s] = NULL THEN 0
  ELSE IF S.caps.hash THEN MemberHash(S.val[S.ptr_[s]])
  ELSE IF S.caps.std_hash THEN StdHash(S.val[S.ptr_[s]])
  ELSE StrHash(to_full_string(S, s))

\* mutation: equals always compares the instances
equals_identity(S, a, b) == S.ptr_[a] = S.ptr_[b]

equals(S, a, b) ==
  IF S.ptr_[a] = NULL /\ S.ptr_[b] = NULL THEN TRUE
  ELSE IF S.ptr_[a] = NULL \/ S.ptr_[b] = NULL THEN FALSE
  ELSE IF S.caps.equals THEN MemberEquals(S.val[S.ptr_[a]], S.val[S.ptr_[b]])
  ELSE IF S.caps.eq THEN OpEquals(S.val[S.ptr_[a]], S.val[S.ptr_[b]])
  ELSE S.ptr_[a] = S.ptr_[b]

\* ------------------------------------------------------------- full_copy
\* mutation: the copy takes the original's stores along
full_copy_with_stores(S, f, s, n) ==
  LET S0 == [S EXCEPT !.constructed = @ \cup {f}, !.parent_[f] = S.parent_[s],
                      !.ptr_[f] = NULL, !.deleter_[f] = DefaultDeleter,
                      !.dyn_fields_[f] = S.dyn_fields_[s],
                      !.dyn_fns_[f] = S.dyn_fns_[s]]
  IN IF S.ptr_[s] = NULL THEN S0
     ELSE reset([new_node(S0, n) EXCEPT
                   !.val[n] = S.val[S.ptr_[s]], !.back[n] = S.back[S.ptr_[s]],
                   !.log = Append(@, <<IF S.caps.clone THEN "clone" ELSE "copy",
                                       n, S.ptr_[s]>>)], f, n)

\* full_copy() into the new slot f, n being the address of the new instance:
\* child_unique_ptr{parent_}, or child_unique_ptr{parent_, q} with q what
\* ptr_->clone() releases or new T(*ptr_)
full_copy(S, f, s, n) ==
  LET S0 == [S EXCEPT !.constructed = @ \cup {f}, !.parent_[f] = S.parent_[s],
                      !.ptr_[f] = NULL, !.deleter_[f] = DefaultDeleter]
  IN IF S.ptr_[s] = NULL THEN S0
     ELSE reset([new_node(S0, n) EXCEPT
                   !.val[n] = S.val[S.ptr_[s]], !.back[n] = S.back[S.ptr_[s]],
                   !.log = Append(@, <<IF S.caps.clone THEN "clone" ELSE "copy",
                                       n, S.ptr_[s]>>)], f, n)

\* whether T can be cloned at all
Cloneable(S) == S.caps.clone \/ S.caps.copyable

AttrCount(S) == Cardinality({<<s, k>> \in Slots \X Keys : S.dyn_fields_[s].m[k] # Absent})
FnCount(S)   == Cardinality({<<s, k>> \in Slots \X FnNames : S.dyn_fns_[s].m[k] # NoFn})

\* ------------------------------------------------------------------ Init
Idle == Call("idle", NULL, NULL, NULL)

Init ==
  /\ st = [n \in Nodes |-> IF n = 1 THEN "live" ELSE "unalloc"]
  /\ back = [n \in Nodes |-> NULL]
  /\ constructed = MembersOf(1)
  /\ parent_ = [s \in Slots |-> IF s \in MemberSlots THEN Owner(s) ELSE NULL]
  /\ ptr_ = [s \in Slots |-> NULL]
  /\ deleter_ = [s \in Slots |-> DefaultDeleter]
  /\ dyn_fields_ = [s \in Slots |-> NoFields]
  /\ dyn_fns_ = [s \in Slots |-> NoFns]
  /\ callerOwns = {1}
  /\ status = "ok"
  /\ aliased = FALSE
  /\ val = [n \in Nodes |-> n]
  /\ caps = NodeCaps
  /\ last = Idle

\* --------------------------------------------------------------- actions
Ready == status = "ok" /\ last.op = "idle"

\* the caller takes the result of the last call
Return ==
  /\ status = "ok" /\ last.op # "idle"
  /\ last' = Idle
  /\ UNCHANGED <<st, back, constructed, parent_, ptr_, deleter_, dyn_fields_,
                 dyn_fns_, callerOwns, status, aliased, val, caps>>

\* explicit child_unique_ptr(Parent* parent)
CtorParent(f, P) ==
  /\ Ready /\ f \in FreeSlots \ constructed
  /\ P \in Live(Cur) \cup {NULL}
  /\ Commit([Cur EXCEPT !.constructed = @ \cup {f}, !.parent_[f] = P,
                        !.ptr_[f] = NULL, !.deleter_[f] = DefaultDeleter],
            Call("ctor", f, NULL, NULL))
  /\ UNCHANGED <<callerOwns, aliased>>

\* child_unique_ptr(Parent* parent, pointer p, const Deleter& d)
CtorValueOn(f, P, p, d) ==
  LET S0 == [Cur EXCEPT !.constructed = @ \cup {f}, !.parent_[f] = P,
                        !.ptr_[f] = NULL, !.deleter_[f] = d]
      S1 == reset(S0, f, p)
  IN /\ Commit(S1, [Call("ctor_value", f, NULL, p) EXCEPT
                      !.refused = (Refusal(S0, f, p) = "yes")])
     /\ callerOwns' = IF S1.ptr_[f] = p THEN callerOwns \ {p} ELSE callerOwns
     /\ aliased' = (aliased \/ p \in Owned(Cur))

\* ... with p a live instance no slot owns
CtorValue(f, P, p, d) ==
  /\ Ready /\ f \in FreeSlots \ constructed
  /\ P \in Live(Cur) \cup {NULL}
  /\ p \in Live(Cur) \ Owned(Cur)
  /\ CtorValueOn(f, P, p, d)

\* ... with p an instance some slot owns
CtorValueOwned(f, P, p, d) ==
  /\ Ready /\ f \in FreeSlots \ constructed
  /\ P \in Live(Cur) \cup {NULL}
  /\ p \in Owned(Cur)
  /\ CtorValueOn(f, P, p, d)

MoveCtor(f, o) ==
  /\ Ready /\ f \in FreeSlots \ constructed /\ o \in constructed
  /\ Commit(move_construct(Cur, f, o), Call("move_ctor", f, o, ptr_[o]))
  /\ UNCHANGED <<callerOwns, aliased>>

MoveAssign(d, o) ==
  /\ Ready /\ d \in constructed /\ o \in constructed
  /\ Commit(move_assign(Cur, d, o),
            [Call("move_assign", d, o, ptr_[o]) EXCEPT
               !.refused = (d # o /\ Refusal(release(Cur, o), d, ptr_[o]) = "yes")])
  /\ UNCHANGED <<callerOwns, aliased>>

\* ~child_unique_ptr of a free-standing slot
Destructor(f) ==
  /\ Ready /\ f \in FreeSlots \cap constructed
  /\ LET S1 == destroy_slot(Cur, f) IN
     Commit(IF S1.status = "ok"
            THEN [S1 EXCEPT !.parent_[f] = NULL, !.deleter_[f] = DefaultDeleter]
            ELSE S1,
            Call("dtor", f, NULL, ptr_[f]))
  /\ UNCHANGED <<callerOwns, aliased>>

Release(s) ==
  /\ Ready /\ s \in constructed
  /\ Commit(release(Cur, s), [Call("release", s, NULL, NULL) EXCEPT !.ret = ptr_[s]])
  /\ callerOwns' = callerOwns \cup ({ptr_[s]} \ {NULL})
  /\ UNCHANGED aliased

ResetOn(s, p) ==
  LET S1 == reset(Cur, s, p) IN
  /\ Commit(S1, [Call("reset", s, NULL, p) EXCEPT !.refused = (Refusal(Cur, s, p) = "yes")])
  /\ callerOwns' = IF S1.ptr_[s] = p THEN callerOwns \ {p} ELSE callerOwns
  /\ aliased' = (aliased \/ p \in Owned(Cur))

\* reset(p) with p empty or a live instance no slot owns
Reset(s, p) ==
  /\ Ready /\ s \in constructed
  /\ p \in (Live(Cur) \ Owned(Cur)) \cup {NULL}
  /\ ResetOn(s, p)

\* reset(p) with p an instance some slot owns (this one included)
ResetOwned(s, p) ==
  /\ Ready /\ s \in constructed
  /\ p \in Owned(Cur)
  /\ ResetOn(s, p)

\* emplace(args...): reset(new T(args...)); at most maxNodes nodes are allocated
Emplace(s, maxNodes) ==
  /\ Ready /\ s \in constructed /\ HasFresh(Cur) /\ Fresh(Cur) <= maxNodes
  /\ LET n == Fresh(Cur) IN
     Commit(reset(new_node(Cur, n), s, n), Call("emplace", s, NULL, n))
  /\ UNCHANGED <<callerOwns, aliased>>

Swap(a, b) ==
  /\ Ready /\ a \in constructed /\ b \in constructed
  /\ Commit(swap(Cur, a, b), Call("swap", a, b, NULL))
  /\ UNCHANGED <<callerOwns, aliased>>

\* operator=(std::unique_ptr<T>&& up): up owned p, or was empty
AssignUnique(s, p) ==
  /\ Ready /\ s \in constructed
  /\ p \in callerOwns \cup {NULL}
  /\ Commit(reset(Cur, s, p),
            [Call("assign_unique", s, NULL, p) EXCEPT !.refused = (Refusal(Cur, s, p) = "yes")])
  /\ callerOwns' = callerOwns \ {p}
  /\ UNCHANGED aliased

\* ptr[k] = v; at most maxAttrs entries are created
SetAttr(s, k, v, maxAttrs) ==
  /\ Ready /\ s \in constructed
  /\ IF subscript(Cur, s) # "none"
     THEN Commit(Cur, [Call("set", s, NULL, NULL) EXCEPT
                         !.k = k, !.v = v, !.fault = subscript(Cur, s)])
     ELSE /\ field_exists(Cur, s, k) \/ AttrCount(Cur) < maxAttrs
          /\ Commit(field_assign(Cur, s, k, v),
                    [Call("set", s, NULL, NULL) EXCEPT
                       !.k = k, !.v = v, !.old = dyn_fields_[s].m[k]])
  /\ UNCHANGED <<callerOwns, aliased>>

\* U x = ptr[k].as<U>()
GetAttr(s, k, U) ==
  /\ Ready /\ s \in constructed
  /\ LET r == get(Cur, s, k, U) IN
     Commit(Cur, [Call("get", s, NULL, NULL) EXCEPT
                    !.k = k, !.U = U, !.v = r.val, !.fault = r.fault])
  /\ UNCHANGED <<callerOwns, aliased>>

\* bool b = ptr[k].exists()
ExistsAttr(s, k) ==
  /\ Ready /\ s \in constructed
  /\ LET r == exists(Cur, s, k) IN
     Commit(Cur, [Call("exists", s, NULL, NULL) EXCEPT
                    !.k = k, !.ret = IF r.b THEN 1 ELSE 0, !.fault = r.fault])
  /\ UNCHANGED <<callerOwns, aliased>>

\* ptr.def<R, Args...>(name, f); at most maxFns entries are created
Def(s, name, f, maxFns) ==
  /\ Ready /\ s \in constructed
  /\ dyn_fns_[s].m[name] # NoFn \/ FnCount(Cur) < maxFns
  /\ Commit(def(Cur, s, name, f),
            [Call("def", s, NULL, NULL) EXCEPT
               !.k = name, !.fn = f, !.oldfn = dyn_fns_[s].m[name]])
  /\ UNCHANGED <<callerOwns, aliased>>

\* U r = ptr.call<U>(name, args...)
CallFn(s, name, args, U) ==
  /\ Ready /\ s \in constructed
  /\ LET r == call(Cur, s, name, args, U) IN
     Commit(Cur, [Call("call", s, NULL, NULL) EXCEPT
                    !.k = name, !.args = args, !.U = U, !.v = r.val,
                    !.fault = r.fault, !.ret = IF r.invoked THEN 1 ELSE 0])
  /\ UNCHANGED <<callerOwns, aliased>>

\* U r = ptr[name](args...).as<U>()
ProxyCall(s, name, args, U) ==
  /\ Ready /\ s \in constructed
  /\ LET r == proxy_call(Cur, s, name, args, U) IN
     Commit(Cur, [Call("proxy_call", s, NULL, NULL) EXCEPT
                    !.k = name, !.args = args, !.U = U, !.v = r.val,
                    !.fault = r.fault, !.ret = IF r.invoked THEN 1 ELSE 0])
  /\ UNCHANGED <<callerOwns, aliased>>

\* std::string t = ptr.to_string()
Stringify(s) ==
  /\ Ready /\ s \in constructed
  /\ Commit(Cur, [Call("to_string", s, NULL, NULL) EXCEPT !.text = to_string(Cur, s)])
  /\ UNCHANGED <<callerOwns, aliased>>

\* std::string t = ptr.to_full_string()
FullString(s) ==
  /\ Ready /\ s \in constructed
  /\ Commit(Cur, [Call("to_full_string", s, NULL, NULL) EXCEPT
                    !.full = to_full_string(Cur, s)])
  /\ UNCHANGED <<callerOwns, aliased>>

\* std::size_t h = ptr.hash(), also straight after another hash()
Hash(s) ==
  /\ status = "ok" /\ last.op \in {"idle", "hash"} /\ s \in constructed
  /\ Commit(Cur, [Call("hash", s, NULL, NULL) EXCEPT
                    !.ret = hash(Cur, s),
                    !.prev = IF last.op = "hash" /\ last.a = s
                             THEN [some |-> TRUE, h |-> last.ret] ELSE NoPrev])
  /\ UNCHANGED <<callerOwns, aliased>>

\* bool e = a.equals(b)
Equals(a, b) ==
  /\ Ready /\ a \in constructed /\ b \in constructed
  /\ Commit(Cur, [Call("equals", a, b, NULL) EXCEPT
                    !.ret = IF equals(Cur, a, b) THEN 1 ELSE 0])
  /\ UNCHANGED <<callerOwns, aliased>>

\* ptr->value = v: the caller writes the owned value through operator->
Mutate(s, v) ==
  /\ Ready /\ s \in constructed /\ ptr_[s] # NULL /\ st[ptr_[s]] = "live"
  /\ Commit([Cur EXCEPT !.val[ptr_[s]] = v], Call("mutate", s, NULL, ptr_[s]))
  /\ UNCHANGED <<callerOwns, aliased>>

\* child_unique_ptr c = ptr.full_copy(), or ptr.copy() when op is "copy"
FullCopyAs(op, f, s) ==
  /\ Ready /\ f \in FreeSlots \ constructed /\ s \in constructed
  /\ IF ptr_[s] # NULL /\ ~Cloneable(Cur)
     THEN Commit(Cur, [Call(op, f, s, NULL) EXCEPT !.fault = "logic_error"])
     ELSE /\ ptr_[s] # NULL => HasFresh(Cur)
          /\ LET n == IF ptr_[s] # NULL THEN Fresh(Cur) ELSE NULL IN
             Commit(full_copy(Cur, f, s, n), Call(op, f, s, n))
  /\ UNCHANGED <<callerOwns, aliased>>

FullCopy(f, s) == FullCopyAs("full_copy", f, s)

\* copy() delegates to full_copy()
Copy(f, s) == FullCopyAs("copy", f, s)

\* ------------------------------------------------------- specifications
\* Ownership: every slot operation, the caller handing over only raw values
\* that no slot owns.
Next ==
  \/ \E f \in FreeSlots, P \in Nodes \cup {NULL} : CtorParent(f, P)
  \/ \E f \in FreeSlots, P \in Nodes \cup {NULL}, p \in Nodes, d \in {DefaultDeleter} : CtorValue(f, P, p, d)
  \/ \E f \in FreeSlots, o \in Slots : MoveCtor(f, o)
  \/ \E d \in Slots, o \in Slots : MoveAssign(d, o)
  \/ \E f \in FreeSlots : Destructor(f)
  \/ \E s \in Slots : Release(s)
  \/ \E s \in Slots, p \in Nodes \cup {NULL} : Reset(s, p)
  \/ \E s \in Slots : Emplace(s, MaxNodes)
  \/ \E a \in Slots, b \in Slots : Swap(a, b)
  \/ \E s \in Slots, p \in Nodes \cup {NULL} : AssignUnique(s, p)
  \/ Return

Spec == Init /\ [][Next]_vars

\* Ownership, the caller's raw values ranging over every existing instance.
NextAnyRaw ==
  \/ \E f \in FreeSlots, P \in Nodes \cup {NULL} : CtorParent(f, P)
  \/ \E f \in FreeSlots, P \in Nodes \cup {NULL}, p \in Nodes, d \in {DefaultDeleter} : CtorValue(f, P, p, d)
  \/ \E f \in FreeSlots, o \in Slots : MoveCtor(f, o)
  \/ \E d \in Slots, o \in Slots : MoveAssign(d, o)
  \/ \E f \in FreeSlots : Destructor(f)
  \/ \E s \in Slots : Release(s)
  \/ \E s \in Slots, p \in Nodes \cup {NULL} : Reset(s, p)
  \/ \E s \in Slots : Emplace(s, AnyRawNodes)
  \/ \E a \in Slots, b \in Slots : Swap(a, b)
  \/ \E s \in Slots, p \in Nodes \cup {NULL} : AssignUnique(s, p)
  \/ Return
  \/ \E s \in Slots, p \in Nodes : ResetOwned(s, p)
  \/ \E f \in FreeSlots, P \in Nodes \cup {NULL}, p \in Nodes, d \in {DefaultDeleter} : CtorValueOwned(f, P, p, d)

SpecAnyRaw == Init /\ [][NextAnyRaw]_vars

\* Ownership together with the dynamic stores, on a heap of StoreNodes nodes.
StoreKeys == {"hp"}
StoreVals == {[t |-> "int", v |-> 100]}
StoreFnNames == {"add"}
StoreFnBodies == {[f |-> "plus", R |-> "int", A |-> <<"int", "int">>]}

NextStores ==
  \/ \E f \in FreeSlots, P \in Nodes \cup {NULL} : CtorParent(f, P)
  \/ \E f \in FreeSlots, P \in Nodes \cup {NULL}, p \in Nodes, d \in Deleters : CtorValue(f, P, p, d)
  \/ \E f \in FreeSlots, o \in Slots : MoveCtor(f, o)
  \/ \E d \in Slots, o \in Slots : MoveAssign(d, o)
  \/ \E f \in FreeSlots : Destructor(f)
  \/ \E s \in Slots : Release(s)
  \/ \E s \in Slots, p \in Nodes \cup {NULL} : Reset(s, p)
  \/ \E s \in Slots : Emplace(s, StoreNodes)
  \/ \E a \in Slots, b \in Slots : Swap(a, b)
  \/ \E s \in Slots, p \in Nodes \cup {NULL} : AssignUnique(s, p)
  \/ \E s \in Slots, k \in StoreKeys, v \in StoreVals : SetAttr(s, k, v, StoreAttrs)
  \/ \E s \in Slots, name \in StoreFnNames, f \in StoreFnBodies : Def(s, name, f, StoreFns)
  \/ Return

SpecStores == Init /\ [][NextStores]_vars

\* Ownership with several deleters, on the full heap: the operations that
\* destroy, hand over or exchange a value together with its deleter.
NextDeleters ==
  \/ \E f \in FreeSlots, P \in Nodes \cup {NULL}, p \in Nodes, d \in Deleters : CtorValue(f, P, p, d)
  \/ \E f \in FreeSlots : Destructor(f)
  \/ \E s \in Slots : Release(s)
  \/ \E s \in Slots, p \in Nodes \cup {NULL} : Reset(s, p)
  \/ \E s \in Slots : Emplace(s, MaxNodes)
  \/ \E a \in Slots, b \in Slots : Swap(a, b)
  \/ Return

SpecDeleters == Init /\ [][NextDeleters]_vars

\* The attribute store: set, get and exists on slots that gain, lose and
\* replace their value.
NextAttr ==
  \/ \E s \in Slots : Emplace(s, AttrNodes)
  \/ \E s \in Slots : Release(s)
  \/ \E s \in Slots, p \in Nodes \cup {NULL} : Reset(s, p)
  \/ \E s \in Slots, k \in Keys, v \in AnyVals : SetAttr(s, k, v, AttrBudget)
  \/ \E s \in Slots, k \in Keys, U \in AnyTypes : GetAttr(s, k, U)
  \/ \E s \in Slots, k \in Keys : ExistsAttr(s, k)
  \/ Return

SpecAttr == Init /\ [][NextAttr]_vars

\* The method registry: def and the two call forms on slots that gain, lose
\* and replace their value.
NextFns ==
  \/ \E s \in Slots : Emplace(s, FnNodes)
  \/ \E s \in Slots : Release(s)
  \/ \E s \in Slots, p \in Nodes \cup {NULL} : Reset(s, p)
  \/ \E s \in Slots, name \in FnNames, f \in FnBodies : Def(s, name, f, FnBudget)
  \/ \E s \in Slots, name \in FnNames, args \in CallArgs, U \in AnyTypes : CallFn(s, name, args, U)
  \/ \E s \in Slots, name \in FnNames, args \in CallArgs, U \in AnyTypes : ProxyCall(s, name, args, U)
  \/ Return

SpecFns == Init /\ [][NextFns]_vars

\* The service helpers, for every combination of capabilities of the value
\* type, on slots that gain, lose and replace their value.
InitSvc ==
  /\ st = [n \in Nodes |-> IF n = 1 THEN "live" ELSE "unalloc"]
  /\ back = [n \in Nodes |-> NULL]
  /\ constructed = MembersOf(1)
  /\ parent_ = [s \in Slots |-> IF s \in MemberSlots THEN Owner(s) ELSE NULL]
  /\ ptr_ = [s \in Slots |-> NULL]
  /\ deleter_ = [s \in Slots |-> DefaultDeleter]
  /\ dyn_fields_ = [s \in Slots |-> NoFields]
  /\ dyn_fns_ = [s \in Slots |-> NoFns]
  /\ callerOwns = {1}
  /\ status = "ok"
  /\ aliased = FALSE
  /\ val = [n \in Nodes |-> n]
  /\ caps \in SvcCaps
  /\ last = Idle

NextSvc ==
  \/ \E s \in Slots : Emplace(s, MaxNodes)
  \/ \E s \in Slots : Release(s)
  \/ \E s \in Slots, k \in StoreKeys, v \in StoreVals : SetAttr(s, k, v, StoreAttrs)
  \/ \E s \in Slots, v \in Values : Mutate(s, v)
  \/ \E s \in Slots : Stringify(s)
  \/ \E s \in Slots : Hash(s)
  \/ \E a \in Slots, b \in Slots : Equals(a, b)
  \/ Return

SpecSvc == InitSvc /\ [][NextSvc]_vars

\* The full string, on member slots and on free-standing slots with and
\* without a recorded parent.
NextFull ==
  \/ \E f \in FreeSlots, P \in Nodes \cup {NULL} : CtorParent(f, P)
  \/ \E s \in Slots : Emplace(s, MaxNodes)
  \/ \E s \in Slots : Release(s)
  \/ \E s \in Slots, v \in Values : Mutate(s, v)
  \/ \E s \in Slots : Stringify(s)
  \/ \E s \in Slots : FullString(s)
  \/ Return

SpecFull == InitSvc /\ [][NextFull]_vars

\* full_copy and copy, for value types with and without clone() and a copy
\* constructor, on slots with values, stores and deleters.
InitClone ==
  /\ st = [n \in Nodes |-> IF n = 1 THEN "live" ELSE "unalloc"]
  /\ back = [n \in Nodes |-> NULL]
  /\ constructed = MembersOf(1)
  /\ parent_ = [s \in Slots |-> IF s \in MemberSlots THEN Owner(s) ELSE NULL]
  /\ ptr_ = [s \in Slots |-> NULL]
  /\ deleter_ = [s \in Slots |-> DefaultDeleter]
  /\ dyn_fields_ = [s \in Slots |-> NoFields]
  /\ dyn_fns_ = [s \in Slots |-> NoFns]
  /\ callerOwns = {1}
  /\ status = "ok"
  /\ aliased = FALSE
  /\ val = [n \in Nodes |-> n]
  /\ caps \in CloneCaps
  /\ last = Idle

NextClone ==
  \/ \E s \in Slots : Emplace(s, MaxNodes)
  \/ \E s \in Slots : Release(s)
  \/ \E f \in FreeSlots : Destructor(f)
  \/ \E s \in Slots, k \in StoreKeys, v \in StoreVals : SetAttr(s, k, v, StoreAttrs)
  \/ \E s \in Slots, name \in StoreFnNames, f \in StoreFnBodies : Def(s, name, f, StoreFns)
  \/ \E s \in Slots, v \in Values : Mutate(s, v)
  \/ \E f \in FreeSlots, s \in Slots : FullCopy(f, s)
  \/ \E f \in FreeSlots, s \in Slots : Copy(f, s)
  \/ Return

SpecClone == InitClone /\ [][NextClone]_vars

\* One identifier used as attribute key and as method name, on slots that
\* gain and lose their value.
SharedNames == Keys \cap FnNames
NamesArgs == {<<x, y>> : x \in StoreVals, y \in StoreVals}

NextNames ==
  \/ \E s \in Slots : Emplace(s, StoreNodes)
  \/ \E s \in Slots : Release(s)
  \/ \E s \in Slots, k \in SharedNames, v \in AnyVals : SetAttr(s, k, v, StoreAttrs)
  \/ \E s \in Slots, k \in SharedNames, U \in AnyTypes : GetAttr(s, k, U)
  \/ \E s \in Slots, k \in SharedNames : ExistsAttr(s, k)
  \/ \E s \in Slots, name \in SharedNames, f \in FnBodies : Def(s, name, f, StoreFns)
  \/ \E s \in Slots, name \in SharedNames, args \in NamesArgs, U \in AnyTypes : CallFn(s, name, args, U)
  \/ \E s \in Slots, name \in SharedNames, args \in NamesArgs, U \in AnyTypes : ProxyCall(s, name, args, U)
  \/ Return

SpecNames == Init /\ [][NextNames]_vars

\* ================================================================ claims
HasEvent(L, kind) == \E i \in 1..Len(L) : L[i][1] = kind

Unique ==
  \A a \in constructed, b \in constructed :
    (a # b /\ ptr_[a] # NULL) => ptr_[a] # ptr_[b]

RECURSIVE OnChain(_, _, _)
OnChain(n, cur, seen) ==
  IF cur = NULL \/ cur \in seen THEN FALSE
  ELSE IF cur = n THEN TRUE
  ELSE OnChain(n, back[cur], seen \cup {cur})

Coherent ==
  \A s \in constructed : ptr_[s] # NULL => back[ptr_[s]] = parent_[s]

\* C1 (as stated): whatever raw value reset and the value constructor are
\* handed, also one another slot owns, no two slots own the same instance.
C1_UniqueAnyRaw == Unique

\* C1 (amended): as long as every raw value handed to reset or to the value
\* constructor was an instance no slot owned, no two slots own the same
\* instance.
C1_UniqueUnownedRaw == ~aliased => Unique

C1_Witness ==
  /\ last.op = "reset" /\ last.p # NULL /\ ~last.refused
  /\ ~aliased /\ status = "ok"
  /\ ptr_[last.a] = last.p
  /\ \E b \in constructed \ {last.a} : ptr_[b] # NULL
  /\ Unique

\* C2: no live value is on its own back-reference chain.
C2_Acyclic ==
  \A n \in Nodes : st[n] = "live" => ~OnChain(n, back[n], {})

\* C3: in every state between calls, every slot that holds a value has that
\* value's back-reference equal to the slot's recorded parent (empty when the
\* slot records no parent).
C3_Coherent == status = "ok" => Coherent

C3_Witness ==
  /\ last.op = "swap" /\ last.a # last.b /\ status = "ok"
  /\ ptr_[last.a] # NULL /\ ptr_[last.b] # NULL
  /\ parent_[last.a] # NULL /\ parent_[last.b] = NULL
  /\ back[ptr_[last.a]] = parent_[last.a]
  /\ back[ptr_[last.b]] = parent_[last.b]

\* C4: a refused adoption (by reset, the value constructor, move-assign or
\* assignment from a unique_ptr) leaves the slot as it was: the value it owned
\* is still owned and not destroyed, and recorded parent, deleter, attribute
\* store and method registry are as before; and no error is signalled.
C4_RefusalKeepsState ==
  [][(last'.op \in {"reset", "ctor_value", "move_assign", "assign_unique"}
      /\ last'.refused)
     => /\ ptr_'[last'.a] = ptr_[last'.a]
        /\ st' = st
        /\ last'.op # "ctor_value"
             => /\ parent_'[last'.a] = parent_[last'.a]
                /\ deleter_'[last'.a] = deleter_[last'.a]
        /\ dyn_fields_'[last'.a] = dyn_fields_[last'.a]
        /\ dyn_fns_'[last'.a] = dyn_fns_[last'.a]
        /\ status' = "ok" /\ last'.fault = "none"]_vars

C6_Swap ==
  [][last'.op = "swap"
     => LET a == last'.a
            b == last'.b
        IN /\ ptr_'[a] = ptr_[b] /\ ptr_'[b] = ptr_[a]
           /\ deleter_'[a] = deleter_[b] /\ deleter_'[b] = deleter_[a]
           /\ dyn_fields_'[a] = dyn_fields_[b] /\ dyn_fields_'[b] = dyn_fields_[a]
           /\ dyn_fns_'[a] = dyn_fns_[b] /\ dyn_fns_'[b] = dyn_fns_[a]
           /\ parent_' = parent_
           /\ ptr_'[a] # NULL => back'[ptr_'[a]] = parent_[a]
           /\ ptr_'[b] # NULL => back'[ptr_'[b]] = parent_[b]]_vars

C6_Witness ==
  /\ last.op = "swap" /\ last.a # last.b /\ status = "ok"
  /\ ptr_[last.a] # NULL /\ back[ptr_[last.a]] = parent_[last.a]
  /\ parent_[last.a] # parent_[last.b]
  /\ deleter_[last.a] # deleter_[last.b]
  /\ dyn_fields_[last.a] # dyn_fields_[last.b]
  /\ dyn_fns_[last.a] # dyn_fns_[last.b]
  /\ C2_Acyclic

\* C7: release returns the owned value without destroying it, clears that
\* value's back-reference, empties the slot and leaves the deleter and both
\* stores alone; on an empty slot it returns the empty value and changes
\* nothing.
C7_Release ==
  [][last'.op = "release"
     => LET s == last'.a
            v == ptr_[s]
        IN /\ last'.ret = v
           /\ ptr_' = [ptr_ EXCEPT ![s] = NULL]
           /\ st' = st /\ ~HasEvent(last'.log, "delete")
           /\ v # NULL => back' = [back EXCEPT ![v] = NULL]
           /\ v = NULL => back' = back
           /\ deleter_' = deleter_ /\ dyn_fields_' = dyn_fields_
           /\ dyn_fns_' = dyn_fns_ /\ parent_' = parent_
           /\ constructed' = constructed]_vars

C7_Witness ==
  /\ last.op = "release" /\ last.ret # NULL /\ status = "ok"
  /\ st[last.ret] = "live" /\ back[last.ret] = NULL
  /\ ptr_[last.a] = NULL /\ parent_[last.a] # NULL
  /\ deleter_[last.a] # DefaultDeleter
  /\ dyn_fields_[last.a] # NoFields /\ dyn_fns_[last.a] # NoFns

C9_StoresPersist ==
  [][last'.op \in {"reset", "emplace"}
     => /\ dyn_fields_'[last'.a] = dyn_fields_[last'.a]
        /\ dyn_fns_'[last'.a] = dyn_fns_[last'.a]]_vars

C9_Witness ==
  /\ last.op \in {"reset", "emplace"} /\ status = "ok"
  /\ last.p # NULL /\ ptr_[last.a] = last.p
  /\ HasEvent(last.log, "delete")
  /\ dyn_fields_[last.a].m["hp"] # Absent
  /\ dyn_fns_[last.a].m["add"] # NoFn

\* C10: on an owning slot, exists(K) is false until the first set(K, .) and
\* true afterwards; get with the type of V returns the V of the most recent
\* set(K, V), also when that set replaced a value of another type; and a set
\* leaves every other key's entry alone.
C10_AttrRoundTrip ==
  [][/\ (last'.op = "set" /\ last'.fault = "none")
          => /\ exists(Cur', last'.a, last'.k) = [fault |-> "none", b |-> TRUE]
             /\ get(Cur', last'.a, last'.k, last'.v.t)
                  = [fault |-> "none", val |-> last'.v]
             /\ \A k \in Keys \ {last'.k} :
                  dyn_fields_'[last'.a].m[k] = dyn_fields_[last'.a].m[k]
     /\ \A s \in Slots, k \in Keys :
          ~(last'.op = "set" /\ last'.fault = "none" /\ last'.a = s /\ last'.k = k)
            => /\ s \in constructed'
                    => field_exists(Cur', s, k) = field_exists(Cur, s, k)
               /\ dyn_fields_'[s].m[k] \in {dyn_fields_[s].m[k], Absent}]_vars

C10_Witness ==
  /\ last.op = "set" /\ last.fault = "none" /\ status = "ok"
  /\ last.old # Absent /\ last.old.t # last.v.t
  /\ get(Cur, last.a, last.k, last.v.t) = [fault |-> "none", val |-> last.v]
  /\ get(Cur, last.a, last.k, last.old.t).fault = "bad_any_cast"
  /\ \E k \in Keys \ {last.k} : exists(Cur, last.a, k).b

WellTyped(fn, args) ==
  /\ Len(args) = Len(fn.A)
  /\ \A i \in 1..Len(args) : args[i].t = fn.A[i]

\* C12: after def<R, A...>(name, f) on a slot, call<R>(name, a...) on the slot
\* while it owns a value returns f(a...), the proxy form returns the same, and
\* a later def under the name replaces the callable: a successful call returns
\* what the callable defined last returns, and only def changes an entry.
C12_MethodRoundTrip ==
  [][/\ last'.op = "def"
          => /\ dyn_fns_'[last'.a].m[last'.k] = last'.fn
             /\ ptr_'[last'.a] # NULL
                  => \A args \in CallArgs :
                       WellTyped(last'.fn, args)
                         => LET r == [fault |-> "none",
                                      val |-> [t |-> last'.fn.R,
                                               v |-> Apply(last'.fn, args)],
                                      invoked |-> TRUE]
                            IN /\ call(Cur', last'.a, last'.k, args, last'.fn.R) = r
                               /\ proxy_call(Cur', last'.a, last'.k, args, last'.fn.R) = r
     /\ (last'.op \in {"call", "proxy_call"} /\ last'.fault = "none")
          => last'.v = [t |-> last'.U,
                        v |-> Apply(dyn_fns_[last'.a].m[last'.k], last'.args)]
     /\ \A s \in Slots, name \in FnNames :
          ~(last'.op = "def" /\ last'.a = s /\ last'.k = name)
            => dyn_fns_'[s].m[name] \in {dyn_fns_[s].m[name], NoFn}]_vars

C12_Witness ==
  /\ last.op = "def" /\ status = "ok" /\ ptr_[last.a] # NULL
  /\ last.oldfn # NoFn /\ last.oldfn.f # last.fn.f /\ last.fn.f = "times"
  /\ call(Cur, last.a, last.k,
          <<[t |-> "int", v |-> 100], [t |-> "int", v |-> 7]>>, "int").val.v = 700
  /\ proxy_call(Cur, last.a, last.k,
          <<[t |-> "int", v |-> 100], [t |-> "int", v |-> 7]>>, "int").val.v = 700

\* C13: a call faults, without invoking the callable, on an empty slot, on a
\* name never defined, on an argument count other than the declared one and
\* on an argument of another type than declared; unwrapping the result as
\* another type than the declared result faults; and no faulting call changes
\* the owned value or either store.
C13_MethodFaults ==
  [][last'.op \in {"call", "proxy_call"}
     => LET s  == last'.a
            fn == dyn_fns_[s].m[last'.k]
            as == last'.args
        IN /\ ptr_[s] = NULL => (last'.fault # "none" /\ last'.ret = 0)
           /\ (ptr_[s] # NULL /\ fn = NoFn)
                => (last'.fault \in {"no_functions", "fn_not_found"} /\ last'.ret = 0)
           /\ (ptr_[s] # NULL /\ fn # NoFn /\ Len(as) # Len(fn.A))
                => (last'.fault = "arg_count" /\ last'.ret = 0)
           /\ (ptr_[s] # NULL /\ fn # NoFn /\ Len(as) = Len(fn.A)
               /\ ~WellTyped(fn, as))
                => (last'.fault = "bad_any_cast" /\ last'.ret = 0)
           /\ (ptr_[s] # NULL /\ fn # NoFn /\ WellTyped(fn, as) /\ fn.R # last'.U)
                => last'.fault = "bad_any_cast"
           /\ last'.fault # "none"
                => /\ ptr_' = ptr_ /\ st' = st /\ back' = back
                   /\ dyn_fields_' = dyn_fields_ /\ dyn_fns_' = dyn_fns_]_vars

C13_Witness ==
  /\ last.op = "call" /\ status = "ok" /\ ptr_[last.a] # NULL
  /\ dyn_fns_[last.a].m[last.k] # NoFn
  /\ Len(last.args) = Len(dyn_fns_[last.a].m[last.k].A)
  /\ ~WellTyped(dyn_fns_[last.a].m[last.k], last.args)
  /\ last.fault = "bad_any_cast" /\ last.ret = 0

Deletions(L, n) == Cardinality({i \in 1..Len(L) : L[i][1] = "delete" /\ L[i][2] = n})

\* C16: every value a slot adopts is destroyed through the deleter exactly
\* once, when a reset replaces it or when its slot is destroyed, unless release
\* handed it back: a call runs the deleter at most once on a value, only on a
\* live value that a slot owns; and a value that its slot no longer owns after
\* a call is owned by another slot, was handed back by release, or has been
\* destroyed.
C16_DestroyedOnce ==
  [][/\ \A n \in Nodes :
          /\ Deletions(last'.log, n) <= 1
          /\ Deletions(last'.log, n) = 1
               => (st[n] = "live" /\ n \in Owned(Cur) /\ st'[n] \in {"dying", "dead"})
     /\ \A s \in constructed :
          (ptr_[s] # NULL /\ (s \notin constructed' \/ ptr_'[s] # ptr_[s]))
            => \/ ptr_[s] \in Owned(Cur')
               \/ (last'.op = "release" /\ last'.ret = ptr_[s])
               \/ (Deletions(last'.log, ptr_[s]) = 1 /\ st'[ptr_[s]] \in {"dying", "dead"})]_vars

\* C17: on a slot that owns no value, to_string returns the text "<null>" and
\* hash returns 0, whatever the slot's recorded parent, its attribute and
\* method stores, and whatever members the value type offers.
C17_EmptySlot ==
  [][/\ last'.op = "to_string" /\ ptr_[last'.a] = NULL => last'.text = NullText
     /\ last'.op = "hash" /\ ptr_[last'.a] = NULL => last'.ret = 0]_vars

C17_Witness ==
  /\ last.op = "hash" /\ status = "ok" /\ ptr_[last.a] = NULL /\ last.ret = 0
  /\ parent_[last.a] # NULL /\ dyn_fields_[last.a].alloc
  /\ caps.hash /\ caps.to_string

\* C18: hash is stable. A hash() call that directly follows a hash() call on
\* the same slot returns the same result; and whatever happens between two
\* calls, a step that leaves the slot owning the same value with the same
\* content (its data and its back-reference) leaves the slot's hash what it
\* was. Both hold for the value's own hash method, for std::hash<T> and for the
\* hash of the full string.
C18_HashStable ==
  [][/\ last'.op = "hash" /\ last'.prev.some => last'.ret = last'.prev.h
     /\ \A s \in constructed \cap constructed' :
          ( /\ status = "ok" /\ status' = "ok"
            /\ ptr_'[s] = ptr_[s]
            /\ ptr_[s] # NULL => /\ val'[ptr_[s]] = val[ptr_[s]]
                                 /\ back'[ptr_[s]] = back[ptr_[s]] )
          => hash(Cur, s)' = hash(Cur, s)]_vars

C18_Witness ==
  /\ last.op = "hash" /\ status = "ok" /\ last.prev.some /\ last.ret = last.prev.h
  /\ ptr_[last.a] # NULL /\ back[ptr_[last.a]] # NULL
  /\ dyn_fields_[last.a].alloc
  /\ ~caps.hash /\ ~caps.std_hash /\ ~caps.to_string /\ ~caps.stream

\* what an equals step on two owning slots answers under each strategy
EqualsByStrategy(l) ==
  /\ caps.equals => (l.ret = 1) = MemberEquals(val[ptr_[l.a]], val[ptr_[l.b]])
  /\ ~caps.equals /\ caps.eq => (l.ret = 1) = OpEquals(val[ptr_[l.a]], val[ptr_[l.b]])
  /\ ~caps.equals /\ ~caps.eq => (l.ret = 1) = (ptr_[l.a] = ptr_[l.b])

EqualsEmpty(l) ==
  /\ ptr_[l.a] = NULL /\ ptr_[l.b] = NULL => l.ret = 1
  /\ (ptr_[l.a] = NULL) # (ptr_[l.b] = NULL) => l.ret = 0

\* C19 as stated: two empty slots are equal, an empty and an owning slot are
\* not, two owning slots compare by the value's equals method, else by its
\* equality operator, else by identity; two slots holding distinct instances
\* with equal values are equal, and every slot equals itself.
C19_Equals ==
  [][last'.op = "equals"
     => /\ EqualsEmpty(last')
        /\ ptr_[last'.a] # NULL /\ ptr_[last'.b] # NULL
             => /\ EqualsByStrategy(last')
                /\ ptr_[last'.a] # ptr_[last'.b] /\ val[ptr_[last'.a]] = val[ptr_[last'.b]]
                     => last'.ret = 1
        /\ last'.a = last'.b => last'.ret = 1]_vars

\* C19, amended: the same, but two slots holding distinct instances with equal
\* values are equal only when the value type has an equals method or an
\* equality operator; with neither, equals compares the instances.
C19_EqualsWhenComparable ==
  [][last'.op = "equals"
     => /\ EqualsEmpty(last')
        /\ ptr_[last'.a] # NULL /\ ptr_[last'.b] # NULL
             => /\ EqualsByStrategy(last')
                /\ ( /\ ptr_[last'.a] # ptr_[last'.b]
                     /\ val[ptr_[last'.a]] = val[ptr_[last'.b]]
                     /\ caps.equals \/ caps.eq )
                   => last'.ret = 1
        /\ last'.a = last'.b => last'.ret = 1]_vars

C19_Witness ==
  /\ last.op = "equals" /\ status = "ok" /\ last.a # last.b
  /\ ptr_[last.a] # NULL /\ ptr_[last.b] # NULL /\ ptr_[last.a] # ptr_[last.b]
  /\ val[ptr_[last.a]] = val[ptr_[last.b]]
  /\ ~caps.equals /\ caps.eq /\ last.ret = 1

\* C20: to_string on an owning slot returns the value's own to_string() when
\* the type has one; otherwise what streaming the value into an output stream
\* writes; otherwise "<TypeName @address>" with the address of the value. A
\* later strategy is used only when every earlier one is unavailable.
C20_StringifyOrder ==
  [][last'.op = "to_string" /\ ptr_[last'.a] # NULL
     => /\ caps.to_string => last'.text = ValueToString(val[ptr_[last'.a]])
        /\ ~caps.to_string /\ caps.stream
             => last'.text = StreamRender(val[ptr_[last'.a]])
        /\ ~caps.to_string /\ ~caps.stream => last'.text = AddrText(ptr_[last'.a])
        /\ last'.text.form = "os << t" => ~caps.to_string
        /\ last'.text.form = "<TypeName @address>" => ~caps.to_string /\ ~caps.stream]_vars

C20_Witness ==
  /\ last.op = "to_string" /\ status = "ok" /\ ptr_[last.a] # NULL
  /\ caps.to_string /\ caps.stream
  /\ last.text = ValueToString(val[ptr_[last.a]])
  /\ val[ptr_[last.a]] # ptr_[last.a]

\* C21: the full string contains the to_string text and the type name, and
\* it carries the "parent@" marker with the parent's address exactly when the
\* slot holds a value whose back-reference is non-empty; for an orphan value
\* and for an empty slot it carries "parent=null".
C21_FullString ==
  [][last'.op = "to_full_string"
     => LET s == last'.a
            linked == ptr_[s] # NULL /\ back[ptr_[s]] # NULL
        IN /\ last'.full.value = to_string(Cur, s)
           /\ last'.full.type = TypeName
           /\ linked <=> last'.full.marker = "parent@"
           /\ ~linked <=> last'.full.marker = "parent=null"
           /\ linked => last'.full.parent = back[ptr_[s]]]_vars

C21_Witness ==
  /\ last.op = "to_full_string" /\ status = "ok"
  /\ ptr_[last.a] # NULL /\ back[ptr_[last.a]] = NULL
  /\ last.full.marker = "parent=null"
  /\ last.full.value = to_string(Cur, last.a) /\ last.full.value # NullText

\* C22: an adoption that returns (reset, the value constructor, move-assign,
\* assignment from a unique_ptr) of a non-empty candidate C by a slot with
\* recorded parent P is refused if and only if C is on the back-reference
\* chain that starts at P; a slot with no recorded parent never refuses; and
\* a refusal leaves the slot and every other slot but a move's source owning
\* what they owned.
C22_GuardDecision ==
  [][(last'.op \in {"reset", "ctor_value", "move_assign", "assign_unique"}
      /\ last'.p # NULL /\ last'.a # last'.b /\ status' = "ok")
     => /\ last'.refused <=> OnChain(last'.p, parent_'[last'.a], {})
        /\ parent_'[last'.a] = NULL => ~last'.refused
        /\ last'.refused
             => \A s \in constructed \ {last'.b} : ptr_'[s] = ptr_[s]]_vars

C22_Witness ==
  /\ last.op = "reset" /\ last.refused /\ status = "ok"
  /\ ptr_[last.a] = NULL /\ parent_[last.a] # NULL
  /\ last.p # parent_[last.a] /\ back[parent_[last.a]] = last.p
  /\ \E s \in constructed : parent_[s] = last.p /\ ptr_[s] = parent_[last.a]

\* C23: in every reachable state the guard's walk from the recorded parent
\* ends, so no reset, value constructor, move-assign or assignment from a
\* unique_ptr fails to return.
C23_GuardTerminates == status # "hung"

\* C24: full_copy and copy return a new slot with the source's recorded parent
\* and no stores, and leave every existing slot and value as it was. From an
\* owning slot the new slot owns a new instance, distinct from the original,
\* made by clone() when the type has it and else by copy construction, equal
\* in data to the original and with that parent as back-reference; from an
\* empty slot the new slot is empty. When the type has neither clone() nor a
\* copy constructor, the call on an owning slot throws and changes nothing.
C24_Clone ==
  [][(last'.op \in {"full_copy", "copy"} /\ status' = "ok")
     => LET f == last'.a
            s == last'.b
            n == last'.p
        IN /\ \A t \in constructed :
                /\ t \in constructed'
                /\ ptr_'[t] = ptr_[t] /\ parent_'[t] = parent_[t]
                /\ deleter_'[t] = deleter_[t]
                /\ dyn_fields_'[t] = dyn_fields_[t] /\ dyn_fns_'[t] = dyn_fns_[t]
           /\ \A m \in Nodes : st[m] # "unalloc"
                => st'[m] = st[m] /\ val'[m] = val[m] /\ back'[m] = back[m]
           /\ last'.fault = "none"
                => /\ f \in constructed' /\ parent_'[f] = parent_[s]
                   /\ dyn_fields_'[f] = NoFields /\ dyn_fns_'[f] = NoFns
           /\ ptr_[s] = NULL => last'.fault = "none" /\ ptr_'[f] = NULL
           /\ (ptr_[s] # NULL /\ Cloneable(Cur))
                => /\ last'.fault = "none"
                   /\ n # NULL /\ ptr_'[f] = n /\ n # ptr_[s]
                   /\ st[n] = "unalloc" /\ st'[n] = "live"
                   /\ val'[n] = val[ptr_[s]]
                   /\ back'[n] = parent_[s]
                   /\ last'.log[1] = <<IF caps.clone THEN "clone" ELSE "copy", n, ptr_[s]>>
           /\ (ptr_[s] # NULL /\ ~Cloneable(Cur))
                => /\ last'.fault = "logic_error"
                   /\ f \notin constructed' /\ st' = st]_vars

C24_Witness ==
  /\ last.op = "copy" /\ status = "ok" /\ last.fault = "none"
  /\ last.p # NULL /\ ptr_[last.a] = last.p /\ ptr_[last.b] # NULL
  /\ ptr_[last.b] # last.p /\ val[last.p] = val[ptr_[last.b]]
  /\ val[last.p] # last.p
  /\ parent_[last.b] # NULL /\ back[last.p] = parent_[last.b]
  /\ dyn_fields_[last.b] # NoFields /\ dyn_fns_[last.b] # NoFns
  /\ dyn_fields_[last.a] = NoFields /\ dyn_fns_[last.a] = NoFns
  /\ ~caps.clone /\ caps.copyable

\* C25: no value is lost. After every call that returns, each value that a
\* slot owned before it, and the value a unique_ptr handed to an assignment,
\* is owned by a slot, or has been destroyed through a deleter, or is the
\* value release returned; also when CycleGuard refuses the adoption.
C25_NoValueLost ==
  [][status' = "ok"
     => \A n \in Nodes :
          (n \in Owned(Cur) \/ (last'.op = "assign_unique" /\ last'.p = n))
            => \/ n \in Owned(Cur')
               \/ (st'[n] = "dead" /\ Deletions(last'.log, n) >= 1)
               \/ (last'.op = "release" /\ last'.ret = n)]_vars

\* C26: no dangling ownership. In every state the caller's operations reach,
\* every value a slot holds is live, and no call has touched a destroyed
\* value or slot: not reset(p) with p the value the slot already owns, and not
\* a move-assign whose source the call itself destroyed.
C26_NoDangling ==
  /\ status # "ub"
  /\ \A s \in constructed : ptr_[s] # NULL => st[ptr_[s]] = "live"

\* C27 as stated: a slot's recorded parent is fixed at construction. Reset,
\* emplace, release, swap, move-assign and assignment from a unique_ptr leave
\* every slot's recorded parent as it was; a move-constructed slot takes the
\* source's recorded parent and the source keeps its own.
C27_ParentFixed ==
  [][/\ last'.op \in {"reset", "emplace", "release", "swap", "move_assign", "assign_unique"}
          => \A s \in constructed : parent_'[s] = parent_[s]
     /\ last'.op = "move_ctor"
          => /\ parent_'[last'.a] = parent_[last'.b]
             /\ \A s \in constructed : parent_'[s] = parent_[s]]_vars

C27_Witness ==
  /\ last.op = "move_assign" /\ last.a # last.b /\ status = "ok" /\ ~last.refused
  /\ last.p # NULL /\ ptr_[last.a] = last.p
  /\ parent_[last.a] # parent_[last.b] /\ parent_[last.a] # NULL
  /\ back[last.p] = parent_[last.a]

\* C28: hash agrees with equals. Whenever two owning slots are equal under
\* equals, their hash() results are equal, whichever equality strategy and
\* hash strategy the type selects and whatever the slots' recorded parents.
C28_HashAgreesWithEquals ==
  status = "ok"
    => \A a \in constructed, b \in constructed :
         (ptr_[a] # NULL /\ ptr_[b] # NULL /\ equals(Cur, a, b))
           => hash(Cur, a) = hash(Cur, b)

\* what the claim compares: the slots' values, deleters and stores, the
\* values' back-references, and everything else swap might touch
SwapView(S) ==
  [ptr_ |-> S.ptr_, deleter_ |-> S.deleter_, dyn_fields_ |-> S.dyn_fields_,
   dyn_fns_ |-> S.dyn_fns_, back |-> S.back, parent_ |-> S.parent_, st |-> S.st,
   constructed |-> S.constructed, status |-> S.status]

\* C29: swap is symmetric and self-inverse. After every a.swap(b) the state
\* is the one b.swap(a) would have reached; applying a.swap(b) once more
\* gives back both slots' values, deleters, stores and the held values'
\* back-references; and a.swap(a) changes nothing.
C29_SwapSymmetric ==
  [][(last'.op = "swap" /\ status' = "ok")
     => LET a == last'.a
            b == last'.b
        IN /\ SwapView(Cur') = SwapView(swap(Cur, b, a))
           /\ SwapView(swap(Cur', a, b)) = SwapView(Cur)
           /\ a = b => SwapView(Cur') = SwapView(Cur)]_vars

C29_Witness ==
  /\ last.op = "swap" /\ last.a # last.b /\ status = "ok"
  /\ ptr_[last.a] # NULL /\ parent_[last.a] # parent_[last.b]
  /\ deleter_[last.a] # deleter_[last.b]
  /\ dyn_fields_[last.a] # dyn_fields_[last.b]
  /\ dyn_fns_[last.a] # dyn_fns_[last.b]
  /\ swap(Cur, last.a, last.b).ptr_[last.b] = ptr_[last.a]
  /\ swap(Cur, last.a, last.b).back[ptr_[last.a]] = parent_[last.b]
  /\ back[ptr_[last.a]] # parent_[last.b]

\* C30: the attribute store and the method registry are independent. A def
\* leaves every attribute store, and so every exists and get answer, as it
\* was; a set leaves every method registry, and so every call answer, as it
\* was; exists and get on a key with no attribute answer false and fault, and a
\* call of a name with no method faults without invoking anything, whatever
\* the other store holds under that identifier.
C30_IndependentNamespaces ==
  [][/\ last'.op = "def"
          => /\ dyn_fields_' = dyn_fields_
             /\ \A s \in constructed, k \in Keys, U \in AnyTypes :
                  /\ exists(Cur', s, k) = exists(Cur, s, k)
                  /\ get(Cur', s, k, U) = get(Cur, s, k, U)
     /\ last'.op = "set"
          => /\ dyn_fns_' = dyn_fns_
             /\ \A s \in constructed, k \in FnNames, args \in NamesArgs, U \in AnyTypes :
                  /\ call(Cur', s, k, args, U) = call(Cur, s, k, args, U)
                  /\ proxy_call(Cur', s, k, args, U) = proxy_call(Cur, s, k, args, U)
     /\ (last'.op = "exists" /\ dyn_fields_[last'.a].m[last'.k] = Absent)
          => last'.ret = 0
     /\ (last'.op = "get" /\ dyn_fields_[last'.a].m[last'.k] = Absent)
          => last'.fault # "none"
     /\ (last'.op \in {"call", "proxy_call"} /\ dyn_fns_[last'.a].m[last'.k] = NoFn)
          => last'.fault # "none" /\ last'.ret = 0]_vars

C30_Witness ==
  /\ last.op = "get" /\ status = "ok" /\ last.fault = "none"
  /\ last.k \in SharedNames
  /\ last.v = dyn_fields_[last.a].m[last.k] /\ last.v # Absent
  /\ dyn_fns_[last.a].m[last.k] # NoFn
  /\ call(Cur, last.a, last.k, <<last.v, last.v>>, "int").fault = "none"
====
